---- MODULE Spec2Model ----
(***************************************************************************)
(* Verification model of the Newton-Schulz iteration page                 *)
(* (src/src/app/page.tsx): the 3x3 matrix algebra, the polynomial         *)
(* builder, the iteration driver with its snapshots, and the page state   *)
(* (React useState cells) that feeds it.                                  *)
(*                                                                         *)
(* JavaScript numbers are modelled as a scaled-down floating format:      *)
(* a finite number is an integer count of 1/Scale units with magnitude    *)
(* at most MaxRaw; every operation rounds to the nearest unit, overflows  *)
(* to +/-Infinity beyond MaxRaw and follows the IEEE rules for NaN and    *)
(* Infinity (Inf*0 = NaN, Inf-Inf = NaN, x/0 = +/-Inf, 0/0 = NaN).        *)
(* `undefined` (an out-of-range array read) is a value of its own that    *)
(* every arithmetic operator coerces to NaN.                              *)
(***************************************************************************)
EXTENDS Integers, Sequences, FiniteSets, TLC

\* ------------------------------------------------------------------ bounds
Scale == 100
MaxRaw == 40000
MaxEdits == 2
MaxOps == 2

\* ------------------------------------------------------------- page state
VARIABLES matrix, degree, iterations, normalize, coefficients, polynomialFn,
          snapshots, selectedStep, nanStep, isRunning,
          edits, lastRun, firstRun, ranOther, svdThrows,
          pcPoly, argDegree, argCoeffs, argX, builtFn, applied,
          heap, pre, live, lastOp, recorded, configured, ops

pageVars == <<matrix, degree, iterations, normalize, coefficients,
              polynomialFn, snapshots, selectedStep, nanStep, isRunning,
              edits, lastRun, firstRun, ranOther, svdThrows>>

polyVars == <<pcPoly, argDegree, argCoeffs, argX, builtFn, applied>>

heapVars == <<heap, pre, live, lastOp, recorded, configured, ops>>

vars == <<matrix, degree, iterations, normalize, coefficients, polynomialFn,
          snapshots, selectedStep, nanStep, isRunning,
          edits, lastRun, firstRun, ranOther, svdThrows,
          pcPoly, argDegree, argCoeffs, argX, builtFn, applied,
          heap, pre, live, lastOp, recorded, configured, ops>>

\* edits counts the input events so far; lastRun, firstRun and ranOther record
\* the configuration of the latest run, the configuration and result of the
\* first run, and whether a run with another configuration followed it.
\* svdThrows fixes, for a whole behaviour, whether the decomposition routine
\* is one that fails on rank-deficient input.
\* heap holds every array allocated so far, pre the heap before the latest
\* operation, live the matrices a caller holds, lastOp the latest operation
\* with its arguments and result, recorded every snapshot recorded so far with
\* its matrix as it was when recorded, configured the initial matrix, the
\* coefficient vector and the degree with their values at construction, and
\* ops the number of operations so far.

\* ------------------------------------------------- number representation
PInf == MaxRaw + 1
NInf == 0 - (MaxRaw + 1)
NaN == MaxRaw + 2
Undefined == MaxRaw + 3

NumIsFinite(x) == x >= 0 - MaxRaw /\ x <= MaxRaw

NumIsNaN(x) == x = NaN \/ x = Undefined

\* a <= b
NumLe(a, b) == ~NumIsNaN(a) /\ ~NumIsNaN(b) /\ a <= b

\* a > b
NumGt(a, b) == ~NumIsNaN(a) /\ ~NumIsNaN(b) /\ a > b

Abs(n) == IF n < 0 THEN 0 - n ELSE n

Sgn(x) == IF x > 0 THEN 1 ELSE IF x < 0 THEN 0 - 1 ELSE 0

\* rounding of an exact result n/d (d > 0) to the nearest representable unit
RoundDiv(n, d) == Sgn(n) * ((Abs(n) + d \div 2) \div d)

\* overflow of an exact finite result to +/-Infinity
Fin(r) == IF r > MaxRaw THEN PInf ELSE IF r < 0 - MaxRaw THEN NInf ELSE r

\* a decimal literal num/den of the source as a number
Dec(num, den) == Fin(RoundDiv(num * Scale, den))

\* a + b
NumAdd(a, b) ==
  IF NumIsNaN(a) \/ NumIsNaN(b) THEN NaN
  ELSE IF ~NumIsFinite(a) /\ ~NumIsFinite(b) THEN (IF a = b THEN a ELSE NaN)
  ELSE IF ~NumIsFinite(a) THEN a
  ELSE IF ~NumIsFinite(b) THEN b
  ELSE Fin(a + b)

\* a * b
NumMul(a, b) ==
  IF NumIsNaN(a) \/ NumIsNaN(b) THEN NaN
  ELSE IF ~NumIsFinite(a) \/ ~NumIsFinite(b)
       THEN (IF a = 0 \/ b = 0 THEN NaN
             ELSE IF Sgn(a) * Sgn(b) > 0 THEN PInf ELSE NInf)
  ELSE Fin(RoundDiv(a * b, Scale))

\* a / b
NumDiv(a, b) ==
  IF NumIsNaN(a) \/ NumIsNaN(b) THEN NaN
  ELSE IF ~NumIsFinite(a) /\ ~NumIsFinite(b) THEN NaN
  ELSE IF ~NumIsFinite(a) THEN (IF Sgn(a) * Sgn(b) >= 0 THEN PInf ELSE NInf)
  ELSE IF ~NumIsFinite(b) THEN 0
  ELSE IF b = 0 THEN (IF a = 0 THEN NaN ELSE IF a > 0 THEN PInf ELSE NInf)
  ELSE Fin(Sgn(b) * RoundDiv(a * Scale, Abs(b)))

RECURSIVE ISqrt(_, _, _)
\* largest r in lo..hi with r*r <= n (bisection)
ISqrt(n, lo, hi) ==
  IF lo >= hi THEN lo
  ELSE LET mid == (lo + hi + 1) \div 2
       IN IF mid * mid <= n THEN ISqrt(n, mid, hi) ELSE ISqrt(n, lo, mid - 1)

\* Math.sqrt(a)
NumSqrt(a) ==
  IF NumIsNaN(a) THEN NaN
  ELSE IF a < 0 THEN NaN
  ELSE IF a = PInf THEN PInf
  ELSE LET n == a * Scale
           r == ISqrt(n, 0, MaxRaw)
       IN IF n - r * r > r THEN r + 1 ELSE r

\* ------------------------------------------------------------ matrices
Idx == 1..3

Mat(a, b, c, d, e, f, g, h, i) == << <<a, b, c>>, <<d, e, f>>, <<g, h, i>> >>

DEFAULT_MATRIX == Mat(Scale, 0, 0, 0, Scale, 0, 0, 0, Scale)

\* a fresh 3x3 array whose cell (i, j) holds f(i, j)
Grid(f(_, _)) ==
  << <<f(1, 1), f(1, 2), f(1, 3)>>,
     <<f(2, 1), f(2, 2), f(2, 3)>>,
     <<f(3, 1), f(3, 2), f(3, 3)>> >>

matClone(A) == LET c(i, j) == A[i][j] IN Grid(c)

cloneMatrix(m) == LET c(i, j) == m[i][j] IN Grid(c)

identity3 == Mat(Scale, 0, 0, 0, Scale, 0, 0, 0, Scale)

\* matTranspose returning its argument as it is
matTranspose_same(A) ==
  << <<A[1][1], A[1][2], A[1][3]>>,
     <<A[2][1], A[2][2], A[2][3]>>,
     <<A[3][1], A[3][2], A[3][3]>> >>

matTranspose(A) ==
  << <<A[1][1], A[2][1], A[3][1]>>,
     <<A[1][2], A[2][2], A[3][2]>>,
     <<A[1][3], A[2][3], A[3][3]>> >>

matAdd(A, B) == LET c(i, j) == NumAdd(A[i][j], B[i][j]) IN Grid(c)

matScale(A, s) == LET c(i, j) == NumMul(A[i][j], s) IN Grid(c)

matMul(A, B) ==
  LET c(i, j) ==
        NumAdd(NumAdd(NumMul(A[i][1], B[1][j]), NumMul(A[i][2], B[2][j])),
               NumMul(A[i][3], B[3][j]))
  IN Grid(c)

frobeniusNorm(A) ==
  LET sq(i, j) == NumMul(A[i][j], A[i][j])
      r1 == NumAdd(NumAdd(NumAdd(0, sq(1, 1)), sq(1, 2)), sq(1, 3))
      r2 == NumAdd(NumAdd(NumAdd(r1, sq(2, 1)), sq(2, 2)), sq(2, 3))
      r3 == NumAdd(NumAdd(NumAdd(r2, sq(3, 1)), sq(3, 2)), sq(3, 3))
  IN NumSqrt(r3)

XXt(X) == matMul(X, matTranspose(X))

matrixHasNaN(m) == \E i \in Idx : \E j \in Idx : ~NumIsFinite(m[i][j])

\* ------------------------------------------------------- polynomial builder
\* coeffs[k] of the source (0-based); an index past the end reads undefined
Coef(coeffs, k) == IF k + 1 <= Len(coeffs) THEN coeffs[k + 1] ELSE Undefined

Returned(M) == [threw |-> FALSE, value |-> M]

Thrown == [threw |-> TRUE, value |-> <<>>]

\* the closure returned by create_polynomial: it captures degree and coeffs
create_polynomial(deg, coeffs) == [degree |-> deg, coeffs |-> coeffs]

\* applyPolynomial treating every degree other than 3 as degree 5
applyPolynomial_default(fn, X) ==
  LET G == XXt(X)
      GX == matMul(G, X)
  IN IF fn.degree = 3
     THEN Returned(matAdd(matScale(X, Coef(fn.coeffs, 0)),
                          matScale(GX, Coef(fn.coeffs, 1))))
     ELSE Returned(matAdd(matAdd(matScale(X, Coef(fn.coeffs, 0)),
                                 matScale(GX, Coef(fn.coeffs, 1))),
                          matScale(matMul(G, GX), Coef(fn.coeffs, 2))))

\* applyPolynomial with a0 and a1 attached to the wrong terms
applyPolynomial_swapped(fn, X) ==
  LET G == XXt(X)
      GX == matMul(G, X)
  IN IF fn.degree = 3
     THEN Returned(matAdd(matScale(X, Coef(fn.coeffs, 1)),
                          matScale(GX, Coef(fn.coeffs, 0))))
     ELSE IF fn.degree = 5
     THEN Returned(matAdd(matAdd(matScale(X, Coef(fn.coeffs, 1)),
                                 matScale(GX, Coef(fn.coeffs, 0))),
                          matScale(matMul(G, GX), Coef(fn.coeffs, 2))))
     ELSE Thrown

applyPolynomial(fn, X) ==
  LET G == XXt(X)
      GX == matMul(G, X)
  IN IF fn.degree = 3
     THEN LET a0 == Coef(fn.coeffs, 0)
              a1 == Coef(fn.coeffs, 1)
              term0 == matScale(X, a0)
              term1 == matScale(GX, a1)
          IN Returned(matAdd(term0, term1))
     ELSE IF fn.degree = 5
     THEN LET a0 == Coef(fn.coeffs, 0)
              a1 == Coef(fn.coeffs, 1)
              a2 == Coef(fn.coeffs, 2)
              G2X == matMul(G, GX)
              term0 == matScale(X, a0)
              term1 == matScale(GX, a1)
              term2 == matScale(G2X, a2)
          IN Returned(matAdd(matAdd(term0, term1), term2))
     ELSE Thrown

DEGREE_CHOICES == {3, 5}

DEGREE_DEFAULTS(deg) ==
  IF deg = 3 THEN <<Dec(3, 2), Dec(0 - 1, 2)>>
  ELSE <<Dec(34445, 10000), Dec(0 - 4775, 1000), Dec(20315, 10000)>>

\* ------------------------------------------------- singular values (svd-js)
\* the matrix has a column of zeros
ZeroColumn(input) ==
  \E j \in Idx : \A i \in Idx : input[i][j] = 0

\* SVD(input).q of the svd-js package, which page.tsx imports: one
\* non-negative value per column, in the routine's own (unsorted) order.
\* The routine is deterministic.  The values are the column norms, which are
\* the singular values whenever the columns are mutually orthogonal (every
\* diagonal matrix is).  The package as shipped throws only for a matrix
\* with fewer rows than columns (svdThrows = FALSE); the try/catch of lines
\* 227-232 allows for a routine that fails on some finite matrices, here
\* the ones with a zero column (svdThrows = TRUE).
SVD(input) ==
  LET col(j) ==
        NumSqrt(NumAdd(NumAdd(NumMul(input[1][j], input[1][j]),
                              NumMul(input[2][j], input[2][j])),
                       NumMul(input[3][j], input[3][j])))
  IN IF svdThrows /\ ZeroColumn(input)
     THEN [threw |-> TRUE, q |-> <<>>]
     ELSE [threw |-> FALSE, q |-> <<col(1), col(2), col(3)>>]

\* ------------------------------------------------------- iteration driver
\* recordSnapshot with an empty catch block (line 231 missing)
recordSnapshot_emptycatch(input, step) ==
  LET invalidValues == matrixHasNaN(input)
      svd == SVD(input)
      singularValues ==
        IF ~invalidValues /\ ~svd.threw THEN SubSeq(svd.q, 1, 3)
        ELSE <<NaN, NaN, NaN>>
  IN [step |-> step, matrix |-> cloneMatrix(input),
      singularValues |-> singularValues, hasNaN |-> invalidValues]

recordSnapshot(input, step) ==
  LET invalidValues == matrixHasNaN(input)
      svd == SVD(input)
      hasNaN == IF invalidValues THEN TRUE ELSE svd.threw
      singularValues ==
        IF ~invalidValues /\ ~svd.threw THEN SubSeq(svd.q, 1, 3)
        ELSE <<NaN, NaN, NaN>>
  IN [step |-> step, matrix |-> cloneMatrix(input),
      singularValues |-> singularValues, hasNaN |-> hasNaN]

\* startMatrix without the `norm > 0` test of line 216
startMatrix_nozerotest(m, norm_flag) ==
  LET current == cloneMatrix(m)
      norm == frobeniusNorm(current)
  IN IF norm_flag /\ NumIsFinite(norm)
     THEN matScale(current, NumDiv(Scale, norm))
     ELSE current

\* lines 213-219: the matrix the run starts from
startMatrix(m, norm_flag) ==
  LET current == cloneMatrix(m)
      norm == frobeniusNorm(current)
  IN IF norm_flag /\ NumIsFinite(norm) /\ NumGt(norm, 0)
     THEN matScale(current, NumDiv(Scale, norm))
     ELSE current

RECURSIVE runLoop_stale(_, _, _, _, _, _)
\* runLoop with `current` never reassigned (line 246 as `const next = ...`)
runLoop_stale(results, current, stop, step, iters, fn) ==
  IF ~NumLe(step * Scale, iters) THEN [threw |-> FALSE, results |-> results]
  ELSE IF stop THEN [threw |-> FALSE, results |-> results]
  ELSE LET r == applyPolynomial(fn, current)
       IN IF r.threw THEN [threw |-> TRUE, results |-> results]
          ELSE LET snap == recordSnapshot(r.value, step)
               IN runLoop_stale(Append(results, snap), current, snap.hasNaN,
                                step + 1, iters, fn)

RECURSIVE runLoop(_, _, _, _, _, _)
\* lines 244-248: the for loop, entered with `step` about to be tested
runLoop(results, current, stop, step, iters, fn) ==
  IF ~NumLe(step * Scale, iters) THEN [threw |-> FALSE, results |-> results]
  ELSE IF stop THEN [threw |-> FALSE, results |-> results]
  ELSE LET r == applyPolynomial(fn, current)
       IN IF r.threw THEN [threw |-> TRUE, results |-> results]
          ELSE LET snap == recordSnapshot(r.value, step)
               IN runLoop(Append(results, snap), r.value, snap.hasNaN,
                          step + 1, iters, fn)

\* runIterations resuming from the last recorded matrix of the previous run
runIterations_resume(m, norm_flag, iters, fn) ==
  LET current == IF snapshots = <<>> THEN startMatrix(m, norm_flag)
                 ELSE snapshots[Len(snapshots)].matrix
      first == recordSnapshot(current, 0)
  IN runLoop(<<first>>, current, first.hasNaN, 1, iters, fn)

\* lines 213-248: the snapshots of one run
runIterations(m, norm_flag, iters, fn) ==
  LET current == startMatrix(m, norm_flag)
      first == recordSnapshot(current, 0)
  IN runLoop(<<first>>, current, first.hasNaN, 1, iters, fn)

NoStep == 0 - 1

\* firstNaN reporting the array position of the flagged snapshot's successor
firstNaN_position(results) ==
  IF \E k \in 1..Len(results) : results[k].hasNaN
  THEN CHOOSE k \in 1..Len(results) :
         /\ results[k].hasNaN
         /\ \A l \in 1..(k - 1) : ~results[l].hasNaN
  ELSE NoStep

\* line 250: results.find((snapshot) => snapshot.hasNaN)?.step ?? null
firstNaN(results) ==
  IF \E k \in 1..Len(results) : results[k].hasNaN
  THEN LET k == CHOOSE k \in 1..Len(results) :
                  /\ results[k].hasNaN
                  /\ \A l \in 1..(k - 1) : ~results[l].hasNaN
       IN results[k].step
  ELSE NoStep

\* ------------------------------------------------------------ page inputs
\* texts typed into the matrix cells (plain text inputs)
MatrixTexts == {"300", "", "abc", "Infinity"}

\* values of the coefficient inputs (type=number: a number or empty)
CoefficientTexts == {"9", ""}

\* values of the Steps input (type=number: a number or empty)
StepsTexts == {"", "2", "-1", "2.5"}

\* Number(value) on the texts above
Number(text) ==
  CASE text = "" -> 0
    [] text = "0" -> 0
    [] text = "1" -> Dec(1, 1)
    [] text = "2" -> Dec(2, 1)
    [] text = "3" -> Dec(3, 1)
    [] text = "9" -> Dec(9, 1)
    [] text = "300" -> Dec(300, 1)
    [] text = "-1" -> Dec(0 - 1, 1)
    [] text = "2.5" -> Dec(5, 2)
    [] text = "Infinity" -> PInf
    [] OTHER -> NaN

\* the run configuration the page holds
Config ==
  [matrix |-> matrix, degree |-> degree, coefficients |-> coefficients,
   iterations |-> iterations, normalize |-> normalize]

\* lines 167-181: the useState initialisers and the first render
PageInit ==
  /\ matrix = cloneMatrix(DEFAULT_MATRIX)
  /\ degree = 3
  /\ iterations = Dec(6, 1)
  /\ normalize = TRUE
  /\ coefficients = DEGREE_DEFAULTS(3)
  /\ polynomialFn = create_polynomial(3, DEGREE_DEFAULTS(3))
  /\ snapshots = <<>>
  /\ selectedStep = 0
  /\ nanStep = NoStep
  /\ isRunning = FALSE
  /\ edits = 0
  /\ lastRun = <<>>
  /\ firstRun = <<>>
  /\ ranOther = FALSE
  /\ svdThrows = FALSE

PolyIdle ==
  /\ pcPoly = "idle"
  /\ argDegree = 3
  /\ argCoeffs = <<>>
  /\ argX = identity3
  /\ builtFn = create_polynomial(3, <<>>)
  /\ applied = Thrown

NoOp == [name |-> "none", a |-> 0, b |-> 0, s |-> 0, ref |-> 0]

HeapIdle ==
  /\ heap = <<>>
  /\ pre = <<>>
  /\ live = <<>>
  /\ lastOp = NoOp
  /\ recorded = <<>>
  /\ configured = [matrix |-> 0, matrixValue |-> identity3,
                   coeffs |-> 0, coeffsValue |-> <<>>, degree |-> 3]
  /\ ops = 0

Init == PageInit /\ PolyIdle /\ HeapIdle

\* handleMatrixChange storing numericValue without the isFinite test
handleMatrixChange_raw(row, column, value) ==
  LET numericValue == Number(value)
      next(i, j) == IF i = row + 1 /\ j = column + 1
                    THEN numericValue ELSE matrix[i][j]
  IN /\ edits < MaxEdits
     /\ edits' = edits + 1
     /\ matrix' = Grid(next)
     /\ UNCHANGED <<degree, iterations, normalize, coefficients, polynomialFn,
                    snapshots, selectedStep, nanStep, isRunning,
                    lastRun, firstRun, ranOther, svdThrows>>
     /\ UNCHANGED <<polyVars, heapVars>>

\* lines 183-190
handleMatrixChange(row, column, value) ==
  LET numericValue == Number(value)
      cell == IF NumIsFinite(numericValue) THEN numericValue ELSE 0
      next(i, j) == IF i = row + 1 /\ j = column + 1 THEN cell ELSE matrix[i][j]
  IN /\ edits < MaxEdits
     /\ edits' = edits + 1
     /\ matrix' = Grid(next)
     /\ UNCHANGED <<degree, iterations, normalize, coefficients, polynomialFn,
                    snapshots, selectedStep, nanStep, isRunning,
                    lastRun, firstRun, ranOther, svdThrows>>
     /\ UNCHANGED <<polyVars, heapVars>>

\* handleDegreeChange without setCoefficients(trimmed)
handleDegreeChange_keep(nextDegree) ==
  /\ edits < MaxEdits
  /\ edits' = edits + 1
  /\ degree' = nextDegree
  /\ polynomialFn' = create_polynomial(nextDegree, coefficients)
  /\ UNCHANGED <<matrix, iterations, normalize, coefficients,
                 snapshots, selectedStep, nanStep, isRunning,
                 lastRun, firstRun, ranOther, svdThrows>>
  /\ UNCHANGED <<polyVars, heapVars>>

\* lines 192-198, and the useMemo of lines 174-177 on the render that follows
handleDegreeChange(nextDegree) ==
  LET nextCount == (nextDegree + 1) \div 2
      defaults == DEGREE_DEFAULTS(nextDegree)
      trimmed == SubSeq(defaults, 1, nextCount)
  IN /\ edits < MaxEdits
     /\ edits' = edits + 1
     /\ degree' = nextDegree
     /\ coefficients' = trimmed
     /\ polynomialFn' = create_polynomial(nextDegree, trimmed)
     /\ UNCHANGED <<matrix, iterations, normalize,
                    snapshots, selectedStep, nanStep, isRunning,
                    lastRun, firstRun, ranOther, svdThrows>>
     /\ UNCHANGED <<polyVars, heapVars>>

\* line 171
coefficientCount == (degree + 1) \div 2

\* handleCoefficientChange with a polynomialFn memoised on degree alone
handleCoefficientChange_stale(index, value) ==
  LET numericValue == Number(value)
      entry == IF NumIsFinite(numericValue) THEN numericValue ELSE 0
      next == IF index + 1 <= Len(coefficients)
              THEN [coefficients EXCEPT ![index + 1] = entry]
              ELSE Append(coefficients, entry)
  IN /\ edits < MaxEdits
     /\ index < coefficientCount
     /\ index <= Len(coefficients)
     /\ edits' = edits + 1
     /\ coefficients' = next
     /\ UNCHANGED <<matrix, degree, iterations, normalize, polynomialFn,
                    snapshots, selectedStep, nanStep, isRunning,
                    lastRun, firstRun, ranOther, svdThrows>>
     /\ UNCHANGED <<polyVars, heapVars>>

\* lines 200-207, and the useMemo of lines 174-177 on the render that follows;
\* the inputs rendered are those of index 0..coefficientCount-1 (line 331)
handleCoefficientChange(index, value) ==
  LET numericValue == Number(value)
      entry == IF NumIsFinite(numericValue) THEN numericValue ELSE 0
      next == IF index + 1 <= Len(coefficients)
              THEN [coefficients EXCEPT ![index + 1] = entry]
              ELSE Append(coefficients, entry)
  IN /\ edits < MaxEdits
     /\ index < coefficientCount
     /\ index <= Len(coefficients)
     /\ edits' = edits + 1
     /\ coefficients' = next
     /\ polynomialFn' = create_polynomial(degree, next)
     /\ UNCHANGED <<matrix, degree, iterations, normalize,
                    snapshots, selectedStep, nanStep, isRunning,
                    lastRun, firstRun, ranOther, svdThrows>>
     /\ UNCHANGED <<polyVars, heapVars>>

\* line 367: setIterations(Number(event.target.value) || 0)
handleStepsChange(value) ==
  LET n == Number(value)
  IN /\ edits < MaxEdits
     /\ edits' = edits + 1
     /\ iterations' = (IF NumIsNaN(n) \/ n = 0 THEN 0 ELSE n)
     /\ UNCHANGED <<matrix, degree, normalize, coefficients, polynomialFn,
                    snapshots, selectedStep, nanStep, isRunning,
                    lastRun, firstRun, ranOther, svdThrows>>
     /\ UNCHANGED <<polyVars, heapVars>>

\* line 382: setNormalize((previous) => !previous)
handleNormalizeToggle ==
  /\ edits < MaxEdits
  /\ edits' = edits + 1
  /\ normalize' = ~normalize
  /\ UNCHANGED <<matrix, degree, iterations, coefficients, polynomialFn,
                 snapshots, selectedStep, nanStep, isRunning,
                 lastRun, firstRun, ranOther, svdThrows>>
  /\ UNCHANGED <<polyVars, heapVars>>

\* handleRunIterations without setSelectedStep(0)
handleRunIterations_keepstep ==
  \E run \in {runIterations(matrix, normalize, iterations, polynomialFn)} :
     /\ ~isRunning
     /\ IF run.threw
        THEN UNCHANGED <<snapshots, nanStep, lastRun, firstRun, ranOther>>
        ELSE /\ snapshots' = run.results
             /\ nanStep' = firstNaN(run.results)
             /\ lastRun' = <<Config>>
             /\ firstRun' = IF firstRun = <<>>
                            THEN <<[config |-> Config, snapshots |-> run.results]>>
                            ELSE firstRun
             /\ ranOther' = (ranOther \/ (firstRun # <<>>
                                             /\ firstRun[1].config # Config))
     /\ isRunning' = FALSE
     /\ UNCHANGED <<matrix, degree, iterations, normalize, coefficients,
                    polynomialFn, edits, svdThrows, selectedStep>>
     /\ UNCHANGED <<polyVars, heapVars>>

\* lines 209-257; the button is disabled while isRunning (line 400)
handleRunIterations ==
  \E run \in {runIterations(matrix, normalize, iterations, polynomialFn)} :
     /\ ~isRunning
     /\ IF run.threw
        THEN UNCHANGED <<snapshots, selectedStep, nanStep, lastRun, firstRun,
                         ranOther>>
        ELSE /\ snapshots' = run.results
             /\ selectedStep' = 0
             /\ nanStep' = firstNaN(run.results)
             /\ lastRun' = <<Config>>
             /\ firstRun' = IF firstRun = <<>>
                            THEN <<[config |-> Config, snapshots |-> run.results]>>
                            ELSE firstRun
             /\ ranOther' = (ranOther \/ (firstRun # <<>>
                                             /\ firstRun[1].config # Config))
     /\ isRunning' = FALSE
     /\ UNCHANGED <<matrix, degree, iterations, normalize, coefficients,
                    polynomialFn, edits, svdThrows>>
     /\ UNCHANGED <<polyVars, heapVars>>

\* lines 424-431: the timeline slider, rendered when snapshots is non-empty
handleSelectStep(value) ==
  /\ edits < MaxEdits
  /\ Len(snapshots) > 0
  /\ value <= Len(snapshots) - 1
  /\ edits' = edits + 1
  /\ selectedStep' = value
  /\ UNCHANGED <<matrix, degree, iterations, normalize, coefficients,
                 polynomialFn, snapshots, nanStep, isRunning,
                 lastRun, firstRun, ranOther, svdThrows>>
  /\ UNCHANGED <<polyVars, heapVars>>

Next ==
  \/ \E row \in 0..2, column \in 0..2, value \in MatrixTexts :
       handleMatrixChange(row, column, value)
  \/ \E nextDegree \in DEGREE_CHOICES : handleDegreeChange(nextDegree)
  \/ \E index \in 0..2, value \in CoefficientTexts :
       handleCoefficientChange(index, value)
  \/ \E value \in StepsTexts : handleStepsChange(value)
  \/ handleNormalizeToggle
  \/ handleRunIterations
  \/ \E value \in 0..6 : handleSelectStep(value)

Spec == Init /\ [][Next]_vars

\* ------------------------------------------- runs from any configuration
\* finite matrices the cell inputs can hold when a run starts
RunMatrices ==
  { DEFAULT_MATRIX,
    Mat(0, 0, 0, 0, 0, 0, 0, 0, 0),
    Mat(3 * Scale, 0, 0, 0, Scale, 0, 0, 0, Scale),
    Mat(Scale, 0, 0, 0, Scale, 0, 0, 0, 3 * Scale),
    Mat(Scale, 2 * Scale, 0, 0, Scale, 0, 0 - Scale, 0, Scale),
    Mat(Dec(300, 1), 0, 0, 0, Scale, 0, 0, 0, Scale),
    Mat(0, 0, 0, 0, 0, 0, 0, 0, 1) }

\* coefficient vectors of the length the page keeps for each degree
RunCoefficients(deg) ==
  IF deg = 3
  THEN { DEGREE_DEFAULTS(3), <<Scale, 0>>, <<Scale, Scale>>, <<9 * Scale, 0>> }
  ELSE { DEGREE_DEFAULTS(5), <<Scale, 0, 0>>, <<Scale, Scale, Scale>> }

\* step counts the Steps input can leave in `iterations`
RunIterations == { 0, Scale, 2 * Scale, 6 * Scale, 0 - Scale, Dec(5, 2) }

InitRun ==
  /\ matrix \in RunMatrices
  /\ degree \in DEGREE_CHOICES
  /\ iterations \in RunIterations
  /\ normalize \in BOOLEAN
  /\ coefficients \in RunCoefficients(degree)
  /\ polynomialFn = create_polynomial(degree, coefficients)
  /\ snapshots = <<>>
  /\ selectedStep = 0
  /\ nanStep = NoStep
  /\ isRunning = FALSE
  /\ edits = 0
  /\ lastRun = <<>>
  /\ firstRun = <<>>
  /\ ranOther = FALSE
  /\ svdThrows \in BOOLEAN
  /\ PolyIdle
  /\ HeapIdle

NextRun == handleRunIterations

SpecRun == InitRun /\ [][NextRun]_vars

\* ------------------------------------------------ the polynomial on its own
PolyDegrees == {1, 3, 4, 5}

PolyCoefficientValues == {0, Scale, 0 - 2 * Scale}

PolyCoefficients ==
  { <<a, b>> : a \in PolyCoefficientValues, b \in PolyCoefficientValues }
  \cup { <<a, b, c>> : a \in PolyCoefficientValues,
                       b \in PolyCoefficientValues,
                       c \in PolyCoefficientValues }

PolyRows == { <<0, 0, 0>>, <<Scale, 0, 0>>, <<0, Scale, 0 - Scale>> }

PolyMatrices ==
  { <<r1, r2, r3>> : r1 \in PolyRows, r2 \in PolyRows, r3 \in PolyRows }
  \cup { Mat(Scale, Scale, Scale, 0, Scale, Scale, Scale, 0, 0 - Scale),
         Mat(Dec(300, 1), 0, 0, 0, Scale, 0, 0, 0, Scale),
         Mat(PInf, 0, 0, 0, Scale, 0, 0, 0, Scale),
         Mat(Scale, 0, 0, 0, NaN, 0, 0, 0, Scale),
         Mat(Dec(1, 2), 0, 0, 0, Dec(1, 4), 0, 0, 0, Scale) }

InitPoly ==
  /\ PageInit
  /\ pcPoly = "input"
  /\ argDegree \in PolyDegrees
  /\ argCoeffs \in PolyCoefficients
  /\ argX \in PolyMatrices
  /\ builtFn = create_polynomial(3, <<>>)
  /\ applied = Thrown
  /\ HeapIdle

\* a caller's create_polynomial(degree, coeffs): no statement of lines 108-145
\* outside the returned function can throw, the closure is always returned
Construct ==
  /\ pcPoly = "input"
  /\ builtFn' = create_polynomial(argDegree, argCoeffs)
  /\ pcPoly' = "built"
  /\ UNCHANGED <<argDegree, argCoeffs, argX, applied>>
  /\ UNCHANGED <<pageVars, heapVars>>

\* a caller's p(X) on the function it was returned
Apply ==
  /\ pcPoly = "built"
  /\ applied' = applyPolynomial(builtFn, argX)
  /\ pcPoly' = "applied"
  /\ UNCHANGED <<argDegree, argCoeffs, argX, builtFn>>
  /\ UNCHANGED <<pageVars, heapVars>>

NextPoly == Construct \/ Apply

SpecPoly == InitPoly /\ [][NextPoly]_vars

\* ------------------------------------------------------------------ claims
\* the configuration of the run that produced `snapshots`
RunCfg == lastRun[1]

HasRun == lastRun # <<>>

Flagged(k) == snapshots[k].hasNaN

NoneFlagged == \A k \in 1..Len(snapshots) : ~Flagged(k)

\* C1: every run yields between 1 and iterations+1 snapshots, and exactly
\* the step-0 snapshot when iterations = 0.
C1_LengthBounds ==
  HasRun =>
    /\ Len(snapshots) >= 1
    /\ Len(snapshots) * Scale <= RunCfg.iterations + Scale
    /\ (RunCfg.iterations = 0 =>
          Len(snapshots) = 1 /\ snapshots[1].step = 0)

\* C2: step s in 1..iterations is recorded iff no earlier snapshot is flagged;
\* only the last snapshot can be flagged; an unflagged run records all
\* iterations+1 snapshots.
C2_StopAfterFlag ==
  HasRun =>
    /\ \A s \in 1..7 :
         NumLe(s * Scale, RunCfg.iterations) =>
           ((\E k \in 1..Len(snapshots) : snapshots[k].step = s)
              <=> (\A k \in 1..Len(snapshots) :
                     snapshots[k].step < s => ~Flagged(k)))
    /\ \A k \in 1..(Len(snapshots) - 1) : ~Flagged(k)
    /\ (NoneFlagged => Len(snapshots) * Scale = RunCfg.iterations + Scale)

\* the step-0 matrix as the claims describe it
NormalizedStart(cfg) ==
  LET n == frobeniusNorm(cfg.matrix)
      inv == NumDiv(Scale, n)
      scaled(i, j) == NumMul(cfg.matrix[i][j], inv)
  IN IF cfg.normalize /\ NumIsFinite(n) /\ n > 0
     THEN Grid(scaled)
     ELSE cfg.matrix

\* C3: snapshot k (0-based) has step k, snapshot 0 holds the (optionally
\* normalized) initial matrix and snapshot k >= 1 holds the polynomial applied
\* once to the matrix of snapshot k-1.
C3_Trajectory ==
  HasRun =>
    /\ \A k \in 1..Len(snapshots) : snapshots[k].step = k - 1
    /\ snapshots[1].matrix = NormalizedStart(RunCfg)
    /\ \A k \in 2..Len(snapshots) :
         LET r == applyPolynomial(
                    create_polynomial(RunCfg.degree, RunCfg.coefficients),
                    snapshots[k - 1].matrix)
         IN ~r.threw /\ snapshots[k].matrix = r.value

C3_Witness ==
  /\ HasRun
  /\ Len(snapshots) >= 4
  /\ RunCfg.normalize
  /\ RunCfg.matrix # DEFAULT_MATRIX
  /\ snapshots[4].matrix # snapshots[3].matrix
  /\ snapshots[3].matrix # snapshots[1].matrix

\* C4: nanStep is none exactly when no snapshot of the current sequence is
\* flagged; otherwise it is the step of the flagged snapshot, which is the
\* last one.
C4_NanStep ==
  /\ (nanStep = NoStep) <=> NoneFlagged
  /\ nanStep # NoStep =>
       /\ Flagged(Len(snapshots))
       /\ nanStep = snapshots[Len(snapshots)].step
       /\ \A k \in 1..(Len(snapshots) - 1) : ~Flagged(k)

\* an unstable run followed by a stable one
C4_Witness ==
  /\ firstRun # <<>>
  /\ \E k \in 1..Len(firstRun[1].snapshots) : firstRun[1].snapshots[k].hasNaN
  /\ firstRun[1].snapshots # snapshots
  /\ nanStep = NoStep
  /\ Len(snapshots) > 1

C4_WitnessUnstable ==
  /\ nanStep > 1
  /\ Len(snapshots) = nanStep + 1

ZeroMatrix == Mat(0, 0, 0, 0, 0, 0, 0, 0, 0)

\* C5: with normalize set the step-0 matrix is the initial matrix scaled by
\* 1/n when its Frobenius norm n is finite and > 0 and the initial matrix
\* otherwise (a zero matrix stays zero, without NaN); without normalize it is
\* the initial matrix.
C5_StepZero ==
  HasRun =>
    LET n == frobeniusNorm(RunCfg.matrix)
        s0 == snapshots[1].matrix
    IN /\ ~RunCfg.normalize => s0 = RunCfg.matrix
       /\ (RunCfg.normalize /\ NumIsFinite(n) /\ n > 0) =>
            \A i \in Idx : \A j \in Idx :
              s0[i][j] = NumMul(RunCfg.matrix[i][j], NumDiv(Scale, n))
       /\ (RunCfg.normalize /\ ~(NumIsFinite(n) /\ n > 0)) =>
            s0 = RunCfg.matrix
       /\ (RunCfg.normalize /\ RunCfg.matrix = ZeroMatrix) =>
            s0 = ZeroMatrix /\ ~matrixHasNaN(snapshots[1].matrix)

C5_Witness ==
  /\ HasRun
  /\ RunCfg.normalize
  /\ RunCfg.matrix = ZeroMatrix
  /\ snapshots[1].matrix = ZeroMatrix

C5_WitnessScaled ==
  /\ HasRun
  /\ RunCfg.normalize
  /\ snapshots[1].matrix # RunCfg.matrix

\* ------------------------------------------------- claims on the polynomial
SupportedDegree == argDegree = 3 \/ argDegree = 5

\* C6 as stated: a degree other than 3 and 5 fails at construction, no
\* function is returned.
C6_FailsAtConstruction == ~SupportedDegree => pcPoly = "input"

\* C6, amended: for a degree other than 3 and 5 construction returns a
\* function that keeps that degree, and applying it throws: no matrix is ever
\* returned, the degree is never defaulted.
C6_ThrowsOnApply ==
  ~SupportedDegree =>
    /\ pcPoly # "input" => builtFn.degree = argDegree
    /\ pcPoly = "applied" => applied.threw

C6_Witness == pcPoly = "applied" /\ argDegree = 4 /\ applied.threw

LengthMismatch ==
  \/ argDegree = 3 /\ Len(argCoeffs) = 3
  \/ argDegree = 5 /\ Len(argCoeffs) = 2

\* C7: degree 3 with 3 coefficients, or degree 5 with 2, is rejected with an
\* error (at the latest when the function is applied): no matrix is computed
\* from a truncated vector or from an undefined entry.
C7_MismatchRejected ==
  (LengthMismatch /\ pcPoly = "applied") => applied.threw

\* the reference: integer matrices as functions, products as index sums
RefSum(f(_)) == f(1) + f(2) + f(3)

RefInt(X) == [i \in Idx |-> [j \in Idx |-> X[i][j] \div Scale]]

RefGram(X) ==
  [i \in Idx |-> [j \in Idx |->
     LET t(k) == X[i][k] * X[j][k] IN RefSum(t)]]

RefMul(A, B) ==
  [i \in Idx |-> [j \in Idx |->
     LET t(k) == A[i][k] * B[k][j] IN RefSum(t)]]

RefPolynomial(deg, c, X) ==
  LET G == RefGram(X)
      GX == RefMul(G, X)
      GGX == RefMul(G, GX)
  IN [i \in Idx |-> [j \in Idx |->
        IF deg = 3 THEN c[1] * X[i][j] + c[2] * GX[i][j]
        ELSE c[1] * X[i][j] + c[2] * GX[i][j] + c[3] * GGX[i][j]]]

\* integer entries between -1 and 1
SmallIntMatrix(X) ==
  \A i \in Idx : \A j \in Idx :
    NumIsFinite(X[i][j]) /\ X[i][j] % Scale = 0 /\ Abs(X[i][j]) <= Scale

MatchedLength == Len(argCoeffs) = (argDegree + 1) \div 2

\* C8: on integer matrices the degree-3 function returns a0*X + a1*(G*X) and
\* the degree-5 function a0*X + a1*(G*X) + a2*(G*(G*X)), G = X*transpose(X),
\* as computed by the integer reference.
C8_MatchesReference ==
  (pcPoly = "applied" /\ SupportedDegree /\ MatchedLength
     /\ SmallIntMatrix(argX)) =>
    /\ ~applied.threw
    /\ LET ref == RefPolynomial(argDegree,
                                [k \in 1..Len(argCoeffs) |-> argCoeffs[k] \div Scale],
                                RefInt(argX))
       IN \A i \in Idx : \A j \in Idx :
            applied.value[i][j] = Scale * ref[i][j]

C8_Witness ==
  /\ pcPoly = "applied"
  /\ argDegree = 5
  /\ argCoeffs = <<Scale, 0 - 2 * Scale, Scale>>
  /\ argX = Mat(Scale, Scale, Scale, 0, Scale, Scale, Scale, 0, 0 - Scale)
  /\ ~applied.threw
  /\ applied.value # argX
  /\ ~matrixHasNaN(applied.value)

IdentityCoefficients ==
  \/ argDegree = 3 /\ argCoeffs = <<Scale, 0>>
  \/ argDegree = 5 /\ argCoeffs = <<Scale, 0, 0>>

\* C9 as stated: with coefficients [1, 0] (degree 3) or [1, 0, 0] (degree 5)
\* p(X) equals X for every matrix X, non-finite entries included.
C9_IdentityForAll ==
  (pcPoly = "applied" /\ IdentityCoefficients) =>
    ~applied.threw /\ applied.value = argX

\* every entry of G*X, and for degree 5 of G*(G*X), is finite
ProductsFinite(deg, X) ==
  LET G == XXt(X)
      GX == matMul(G, X)
  IN /\ ~matrixHasNaN(GX)
     /\ deg = 5 => ~matrixHasNaN(matMul(G, GX))

\* C9, amended: with those coefficients p(X) equals X for every X whose
\* products G*X (and G*(G*X) for degree 5) have only finite entries.
C9_IdentityWhenFinite ==
  (pcPoly = "applied" /\ IdentityCoefficients
     /\ ProductsFinite(argDegree, argX)) =>
    ~applied.threw /\ applied.value = argX

C9_Witness ==
  /\ pcPoly = "applied"
  /\ argDegree = 5
  /\ IdentityCoefficients
  /\ argX = Mat(Dec(1, 2), 0, 0, 0, Dec(1, 4), 0, 0, 0, Scale)
  /\ applied.value = argX

\* --------------------------------------------------------- claims on reruns
\* C10: whenever the latest run was made with the configuration of the page's
\* first run, the snapshot sequence is that of the first run, whatever edits,
\* slider moves and runs happened in between.
C10_SameConfigSameSnapshots ==
  (firstRun # <<>> /\ lastRun = <<firstRun[1].config>>) =>
    snapshots = firstRun[1].snapshots

\* the first run's configuration was left, another configuration was run,
\* and the first one was restored and run again
C10_Witness ==
  /\ firstRun # <<>>
  /\ HasRun
  /\ RunCfg = firstRun[1].config
  /\ ranOther
  /\ snapshots = firstRun[1].snapshots
  /\ Len(snapshots) > 1

\* --------------------------------------------- claims on snapshot contents
Placeholder == <<NaN, NaN, NaN>>

\* the extraction on the matrix of snapshot k failed
ExtractionFailed(k) ==
  ~matrixHasNaN(snapshots[k].matrix) /\ SVD(snapshots[k].matrix).threw

\* C12: a snapshot is flagged exactly when its matrix has a non-finite entry
\* or the extraction on it failed; a skipped or failed extraction leaves the
\* 3-element NaN placeholder, a successful one on a finite matrix leaves
\* the routine's first three values; no run ends with an exception.
C12_FlagAndPlaceholder ==
  /\ ~runIterations(matrix, normalize, iterations, polynomialFn).threw
  /\ \A k \in 1..Len(snapshots) :
       /\ Flagged(k) <=>
            (matrixHasNaN(snapshots[k].matrix) \/ ExtractionFailed(k))
       /\ Flagged(k) => snapshots[k].singularValues = Placeholder
       /\ ~Flagged(k) =>
            snapshots[k].singularValues
              = SubSeq(SVD(snapshots[k].matrix).q, 1, 3)

\* a finite matrix whose extraction failed, and a run that went on to overflow
C12_Witness ==
  /\ HasRun
  /\ ExtractionFailed(Len(snapshots))
  /\ Flagged(Len(snapshots))
  /\ snapshots[Len(snapshots)].singularValues = Placeholder

C12_WitnessOverflow ==
  /\ HasRun
  /\ Len(snapshots) > 1
  /\ matrixHasNaN(snapshots[Len(snapshots)].matrix)
  /\ ~ExtractionFailed(Len(snapshots))

\* C13: every snapshot with a finite matrix and a successful extraction holds
\* exactly 3 non-negative singular values in descending order.
C13_Descending ==
  \A k \in 1..Len(snapshots) :
    ~Flagged(k) =>
      LET sv == snapshots[k].singularValues
      IN /\ Len(sv) = 3
         /\ \A i \in 1..3 : NumLe(0, sv[i])
         /\ NumLe(sv[2], sv[1])
         /\ NumLe(sv[3], sv[2])

\* ------------------------------------------------ claims on the page inputs
\* C14: the stored step count is a non-negative integer after any edits of
\* the Steps input.
C14_NonNegativeInteger ==
  /\ NumIsFinite(iterations)
  /\ iterations >= 0
  /\ iterations % Scale = 0

\* C15: the coefficient vector has exactly (degree + 1) / 2 entries and every
\* entry is finite, in every state reached through degree changes and
\* coefficient edits.
C15_CoefficientShape ==
  /\ Len(coefficients) = (degree + 1) \div 2
  /\ Len(coefficients) = coefficientCount
  /\ \A k \in 1..Len(coefficients) : NumIsFinite(coefficients[k])

\* a degree change followed by an edit of the third coefficient
C15_Witness ==
  /\ degree = 5
  /\ Len(coefficients) = 3
  /\ coefficients[3] # DEGREE_DEFAULTS(5)[3]

\* C16: the polynomial a run applies is the one built from the degree and
\* the coefficients of the moment the run starts.
C16_CurrentPolynomial ==
  /\ polynomialFn = create_polynomial(degree, coefficients)
  /\ HasRun =>
       \A k \in 2..Len(snapshots) :
         LET step == applyPolynomial(
                       create_polynomial(RunCfg.degree, RunCfg.coefficients),
                       snapshots[k - 1].matrix)
         IN ~step.threw /\ snapshots[k].matrix = step.value

\* a run of at least one step after a degree change and a coefficient edit
C16_Witness ==
  /\ HasRun
  /\ Len(snapshots) >= 2
  /\ RunCfg.degree = 5
  /\ RunCfg.coefficients # DEGREE_DEFAULTS(5)
  /\ edits = MaxEdits

MatrixFinite ==
  /\ Len(matrix) = 3
  /\ \A i \in Idx :
       /\ Len(matrix[i]) = 3
       /\ \A j \in Idx : NumIsFinite(matrix[i][j])

\* what a step that changes the matrix does to it
CellEdit ==
  matrix' # matrix =>
    \E row \in 0..2, column \in 0..2, value \in MatrixTexts :
      /\ matrix'[row + 1][column + 1]
           = (IF NumIsFinite(Number(value)) THEN Number(value) ELSE 0)
      /\ \A i \in Idx, j \in Idx :
           (i # row + 1 \/ j # column + 1) => matrix'[i][j] = matrix[i][j]

\* C17: after any sequence of cell edits the matrix is 3 rows of 3 finite
\* numbers, and an edit changes the addressed cell alone, to the parsed value
\* or to 0 when the parsed value is not finite.
C17_CellEdits == []MatrixFinite /\ [][CellEdit]_vars

\* one cell set to 300 and another, non-zero by default, set to 0
C17_Witness ==
  /\ edits = 2
  /\ \E i \in Idx, j \in Idx : matrix[i][j] = Dec(300, 1)
                               /\ DEFAULT_MATRIX[i][j] # Dec(300, 1)
  /\ \E i \in Idx, j \in Idx : matrix[i][j] = 0 /\ DEFAULT_MATRIX[i][j] # 0

SelectedInRange ==
  Len(snapshots) > 0 =>
    /\ 0 <= selectedStep
    /\ selectedStep <= Len(snapshots) - 1

ReplacedTogether ==
  snapshots' # snapshots => selectedStep' = 0

\* C18: while snapshots is non-empty the selected step indexes one of them,
\* and a run replaces the snapshots and resets the selected step to 0 in
\* the same step.
C18_SelectedStep == []SelectedInRange /\ [][ReplacedTogether]_vars

\* a shorter rerun after the slider had been moved past its new end
C18_Witness ==
  /\ HasRun
  /\ firstRun # <<>>
  /\ Len(snapshots) < Len(firstRun[1].snapshots)
  /\ selectedStep = 0
  /\ edits = MaxEdits

\* ------------------------------------------------- arrays as heap objects
\* A heap is a sequence of arrays and the address of an array is its
\* position: a row is an array of 3 numbers, a Matrix an array of 3 row
\* addresses, a coefficient vector an array of numbers. Every operation takes
\* the heap it runs on and returns the heap it leaves with the address of its
\* result.

\* `const v = e; F(v)`: the statements F after a declaration of v
Bind(e, F(_)) == F(e)

\* an array literal [[..], [..], [..]]: three new rows and a new outer array
NewMatrix(h, m) ==
  LET n == Len(h)
  IN [ref |-> n + 4,
      heap |-> h \o <<m[1], m[2], m[3], <<n + 1, n + 2, n + 3>>>>]

\* A[i][j], and A[i][j] = v
Read(h, A, i, j) == h[h[A][i]][j]

Write(h, A, i, j, v) == [h EXCEPT ![h[A][i]] = [@ EXCEPT ![j] = v]]

\* the contents of the matrix at address A
Deref(h, A) ==
  LET cell(i, j) == Read(h, A, i, j)
  IN Grid(cell)

matClone_heap(h, A) == NewMatrix(h, Deref(h, A))

cloneMatrix_heap(h, A) == NewMatrix(h, Deref(h, A))

matTranspose_heap(h, A) ==
  LET cell(i, j) == Read(h, A, j, i)
  IN NewMatrix(h, Grid(cell))

RECURSIVE addLoop(_, _, _, _, _)
\* the loops of lines 54-58, cell k = 3 * i + j next
addLoop(h, C, A, B, k) ==
  IF k = 9 THEN h
  ELSE LET i == (k \div 3) + 1
           j == (k % 3) + 1
       IN Bind(Write(h, C, i, j, NumAdd(Read(h, A, i, j), Read(h, B, i, j))),
               LAMBDA next : addLoop(next, C, A, B, k + 1))

matAdd_heap(h, A, B) ==
  Bind(NewMatrix(h, Mat(0, 0, 0, 0, 0, 0, 0, 0, 0)), LAMBDA C :
    [ref |-> C.ref, heap |-> addLoop(C.heap, C.ref, A, B, 0)])

RECURSIVE scaleLoop(_, _, _, _, _)
\* the loops of lines 69-73
scaleLoop(h, C, A, s, k) ==
  IF k = 9 THEN h
  ELSE LET i == (k \div 3) + 1
           j == (k % 3) + 1
       IN Bind(Write(h, C, i, j, NumMul(Read(h, A, i, j), s)),
               LAMBDA next : scaleLoop(next, C, A, s, k + 1))

\* matScale writing the scaled cells into A itself
matScale_heap_inplace(h, A, s) ==
  [ref |-> A, heap |-> scaleLoop(h, A, A, s, 0)]

matScale_heap(h, A, s) ==
  Bind(NewMatrix(h, Mat(0, 0, 0, 0, 0, 0, 0, 0, 0)), LAMBDA C :
    [ref |-> C.ref, heap |-> scaleLoop(C.heap, C.ref, A, s, 0)])

RECURSIVE mulLoop(_, _, _, _, _)
\* the loops of lines 84-91
mulLoop(h, C, A, B, k) ==
  IF k = 9 THEN h
  ELSE LET i == (k \div 3) + 1
           j == (k % 3) + 1
           v == NumAdd(NumAdd(NumMul(Read(h, A, i, 1), Read(h, B, 1, j)),
                              NumMul(Read(h, A, i, 2), Read(h, B, 2, j))),
                       NumMul(Read(h, A, i, 3), Read(h, B, 3, j)))
       IN Bind(Write(h, C, i, j, v),
               LAMBDA next : mulLoop(next, C, A, B, k + 1))

matMul_heap(h, A, B) ==
  Bind(NewMatrix(h, Mat(0, 0, 0, 0, 0, 0, 0, 0, 0)), LAMBDA C :
    [ref |-> C.ref, heap |-> mulLoop(C.heap, C.ref, A, B, 0)])

XXt_heap(h, X) ==
  Bind(matTranspose_heap(h, X), LAMBDA T :
    matMul_heap(T.heap, X, T.ref))

\* the closure of lines 112-144 on a captured coefficient array at fn.coeffs
applyPolynomial_heap(h, fn, X) ==
  Bind(XXt_heap(h, X), LAMBDA G :
  Bind(matMul_heap(G.heap, G.ref, X), LAMBDA GX :
    IF fn.degree = 3
    THEN LET a0 == Coef(GX.heap[fn.coeffs], 0)
             a1 == Coef(GX.heap[fn.coeffs], 1)
         IN Bind(matScale_heap(GX.heap, X, a0), LAMBDA term0 :
            Bind(matScale_heap(term0.heap, GX.ref, a1), LAMBDA term1 :
            Bind(matAdd_heap(term1.heap, term0.ref, term1.ref), LAMBDA sum :
              [threw |-> FALSE, ref |-> sum.ref, heap |-> sum.heap])))
    ELSE IF fn.degree = 5
    THEN LET a0 == Coef(GX.heap[fn.coeffs], 0)
             a1 == Coef(GX.heap[fn.coeffs], 1)
             a2 == Coef(GX.heap[fn.coeffs], 2)
         IN Bind(matMul_heap(GX.heap, G.ref, GX.ref), LAMBDA G2X :
            Bind(matScale_heap(G2X.heap, X, a0), LAMBDA term0 :
            Bind(matScale_heap(term0.heap, GX.ref, a1), LAMBDA term1 :
            Bind(matScale_heap(term1.heap, G2X.ref, a2), LAMBDA term2 :
            Bind(matAdd_heap(term2.heap, term0.ref, term1.ref), LAMBDA inner :
            Bind(matAdd_heap(inner.heap, inner.ref, term2.ref), LAMBDA sum :
              [threw |-> FALSE, ref |-> sum.ref, heap |-> sum.heap]))))))
    ELSE [threw |-> TRUE, ref |-> 0, heap |-> GX.heap]))

\* lines 213-219
startMatrix_heap(h, m, norm_flag) ==
  Bind(cloneMatrix_heap(h, m), LAMBDA current :
  Bind(frobeniusNorm(Deref(current.heap, current.ref)), LAMBDA norm :
    IF norm_flag /\ NumIsFinite(norm) /\ NumGt(norm, 0)
    THEN matScale_heap(current.heap, current.ref, NumDiv(Scale, norm))
    ELSE current))

\* lines 222-241: the snapshot holds the address of a clone of input; value
\* keeps the contents of that clone as they are when it is pushed
recordSnapshot_heap(h, input, step) ==
  Bind(recordSnapshot(Deref(h, input), step), LAMBDA snap :
  Bind(cloneMatrix_heap(h, input), LAMBDA copy :
    [heap |-> copy.heap,
     snapshot |-> [step |-> step, matrix |-> copy.ref,
                   value |-> Deref(copy.heap, copy.ref),
                   hasNaN |-> snap.hasNaN]]))

RECURSIVE runLoop_heap(_, _, _, _, _, _, _)
\* lines 244-248
runLoop_heap(h, results, current, stop, step, iters, fn) ==
  IF ~NumLe(step * Scale, iters) THEN [heap |-> h, results |-> results]
  ELSE IF stop THEN [heap |-> h, results |-> results]
  ELSE Bind(applyPolynomial_heap(h, fn, current), LAMBDA r :
         IF r.threw THEN [heap |-> r.heap, results |-> results]
         ELSE Bind(recordSnapshot_heap(r.heap, r.ref, step), LAMBDA rec :
                Bind(Append(results, rec.snapshot), LAMBDA pushed :
                  runLoop_heap(rec.heap, pushed, r.ref, rec.snapshot.hasNaN,
                               step + 1, iters, fn))))

\* lines 213-248
runIterations_heap(h, m, norm_flag, iters, fn) ==
  Bind(startMatrix_heap(h, m, norm_flag), LAMBDA current :
  Bind(recordSnapshot_heap(current.heap, current.ref, 0), LAMBDA first :
    runLoop_heap(first.heap, <<first.snapshot>>, current.ref,
                 first.snapshot.hasNaN, 1, iters, fn)))

\* ------------------------------------- specification of the heap operations
HeapMatrices ==
  { DEFAULT_MATRIX,
    Mat(Scale, 2 * Scale, 0, 0, Scale, 0, 0, 0, Scale),
    Mat(0, Scale, 0, 0, 0, 0, 3 * Scale, 0, 0) }

HeapScalars == { Dec(0 - 1, 2), Dec(2, 1) }

HeapIterations == { 2 * Scale }

InitHeap ==
  /\ PageInit
  /\ PolyIdle
  /\ \E m \in HeapMatrices, deg \in DEGREE_CHOICES :
       LET A == NewMatrix(<<>>, m)
           coeffs == DEGREE_DEFAULTS(deg)
       IN /\ heap = Append(A.heap, coeffs)
          /\ live = <<A.ref>>
          /\ configured = [matrix |-> A.ref, matrixValue |-> m,
                           coeffs |-> Len(A.heap) + 1, coeffsValue |-> coeffs,
                           degree |-> deg]
  /\ pre = heap
  /\ lastOp = NoOp
  /\ recorded = <<>>
  /\ ops = 0

\* a caller's call of one matrix operation, r its outcome
Operate(name, r, a, b, s) ==
  /\ ops' = ops + 1
  /\ pre' = heap
  /\ heap' = r.heap
  /\ live' = Append(live, r.ref)
  /\ lastOp' = [name |-> name, a |-> a, b |-> b, s |-> s, ref |-> r.ref]
  /\ UNCHANGED <<recorded, configured>>
  /\ UNCHANGED <<pageVars, polyVars>>

OpClone(a) ==
  /\ ops < MaxOps
  /\ \E r \in {matClone_heap(heap, a)} : Operate("clone", r, a, 0, 0)

OpTranspose(a) ==
  /\ ops < MaxOps
  /\ \E r \in {matTranspose_heap(heap, a)} : Operate("transpose", r, a, 0, 0)

OpAdd(a, b) ==
  /\ ops < MaxOps
  /\ \E r \in {matAdd_heap(heap, a, b)} : Operate("add", r, a, b, 0)

OpScale(a, s) ==
  /\ ops < MaxOps
  /\ \E r \in {matScale_heap(heap, a, s)} : Operate("scale", r, a, 0, s)

OpMul(a, b) ==
  /\ ops < MaxOps
  /\ \E r \in {matMul_heap(heap, a, b)} : Operate("mul", r, a, b, 0)

OpPolynomial(a) ==
  /\ ops < MaxOps
  /\ \E r \in {applyPolynomial_heap(heap, [degree |-> configured.degree,
                                           coeffs |-> configured.coeffs], a)} :
       Operate("poly", r, a, 0, 0)

\* a run on the configured matrix and coefficient vector
OpRun(norm_flag, iters) ==
  /\ ops < MaxOps
  /\ \E run \in {runIterations_heap(heap, configured.matrix, norm_flag, iters,
                                    [degree |-> configured.degree,
                                     coeffs |-> configured.coeffs])} :
       /\ ops' = ops + 1
       /\ pre' = heap
       /\ heap' = run.heap
       /\ recorded' = recorded \o run.results
       /\ lastOp' = [name |-> "run", a |-> configured.matrix, b |-> 0,
                     s |-> 0, ref |-> 0]
       /\ UNCHANGED <<live, configured>>
       /\ UNCHANGED <<pageVars, polyVars>>

NextHeap ==
  \/ \E k \in 1..Len(live) : OpClone(live[k])
  \/ \E k \in 1..Len(live) : OpTranspose(live[k])
  \/ \E k \in 1..Len(live), l \in 1..Len(live) : OpAdd(live[k], live[l])
  \/ \E k \in 1..Len(live), s \in HeapScalars : OpScale(live[k], s)
  \/ \E k \in 1..Len(live), l \in 1..Len(live) : OpMul(live[k], live[l])
  \/ \E k \in 1..Len(live) : OpPolynomial(live[k])
  \/ \E norm_flag \in BOOLEAN, iters \in HeapIterations : OpRun(norm_flag, iters)

SpecHeap == InitHeap /\ [][NextHeap]_vars

\* ------------------------------------------------- claim on frame effects
\* every array that existed before the latest operation is as it was
FrameKept ==
  /\ Len(heap) >= Len(pre)
  /\ \A addr \in 1..Len(pre) : heap[addr] = pre[addr]

\* the latest operation returned an outer array and rows allocated by itself
ResultFresh ==
  /\ lastOp.ref > Len(pre)
  /\ \A i \in Idx : heap[lastOp.ref][i] > Len(pre)

\* what the latest operation computes from the contents of its arguments
ResultValue ==
  LET A == Deref(pre, lastOp.a)
  IN CASE lastOp.name = "clone" -> matClone(A)
       [] lastOp.name = "transpose" -> matTranspose(A)
       [] lastOp.name = "add" -> matAdd(A, Deref(pre, lastOp.b))
       [] lastOp.name = "scale" -> matScale(A, lastOp.s)
       [] lastOp.name = "mul" -> matMul(A, Deref(pre, lastOp.b))
       [] lastOp.name = "poly" ->
            applyPolynomial(create_polynomial(configured.degree,
                                              configured.coeffsValue), A).value

MatrixOps == {"clone", "transpose", "add", "scale", "mul", "poly"}

\* C11: clone, transpose, add, scale, multiply and the polynomial function
\* return a newly allocated matrix and leave every existing array, their
\* arguments included, unchanged; a run leaves the configured matrix, the
\* coefficient vector and every snapshot matrix recorded so far unchanged.
C11_NoMutation ==
  /\ FrameKept
  /\ lastOp.name \in MatrixOps =>
       /\ ResultFresh
       /\ Deref(heap, lastOp.ref) = ResultValue
       /\ Deref(heap, lastOp.a) = Deref(pre, lastOp.a)
  /\ Deref(heap, configured.matrix) = configured.matrixValue
  /\ heap[configured.coeffs] = configured.coeffsValue
  /\ \A k \in 1..Len(recorded) :
       Deref(heap, recorded[k].matrix) = recorded[k].value

\* a second run after a first one recorded its snapshots
C11_Witness ==
  /\ ops = MaxOps
  /\ lastOp.name = "run"
  /\ Len(recorded) >= 4
  /\ Len(heap) > Len(pre)

\* a scaling of the result of an operation applied to one matrix twice
C11_WitnessOperation ==
  /\ ops = MaxOps
  /\ lastOp.name = "scale"
  /\ lastOp.a # configured.matrix
  /\ Deref(heap, lastOp.ref) # Deref(heap, lastOp.a)

====
